---- MODULE Spec2Model ----
(***************************************************************************)
(* The two synchronous "buffer unordered" receivers of messagebus:         *)
(*   src/src/receivers/buffer_unordered/sync.rs          (one message per  *)
(*                                                         handler call)   *)
(*   src/src/receivers/buffer_unordered_batched/sync.rs  (one group of     *)
(*                                                         messages per    *)
(*                                                         handler call)   *)
(* A receiver is a handle (try_send / close / stats) in front of a bounded *)
(* channel, and one poller task that drains the channel, submits dispatch  *)
(* units to the blocking worker pool under the max_parallel bound, collects*)
(* their completions, and after the channel is closed and drained runs the *)
(* handler's finalize hook.                                                *)
(***************************************************************************)
EXTENDS Naturals, Integers, Sequences, FiniteSets, TLC

\* ------------------------------------------------------------------ bounds
MaxBuffer == 2       \* cfg.buffer_size ranges over 1..MaxBuffer
MaxParallel == 2     \* cfg.max_parallel ranges over 1..MaxParallel
MaxBatch == 2        \* cfg.batch_size ranges over 1..MaxBatch
MaxMsgs == 3         \* number of try_send calls made by the producers
NumProducers == 1    \* threads calling try_send on the shared handle

Msgs == 1 .. MaxMsgs
\* Option<M>
None == << >>
Some(m) == << m >>

\* ------------------------------------------------------- AtomicU64 counters
\* A counter is an AtomicU64.  Its value is kept as four limbs, least
\* significant first, so that fetch_add / fetch_sub wrap at 2^64 exactly as
\* the hardware does.
U64Bits == 64
LimbBase == 2 ^ (U64Bits \div 4)

AtomicU64_new(n) == << n % LimbBase, 0, 0, 0 >>

RECURSIVE AddCarry(_, _, _)
AddCarry(c, i, k) ==
    IF i > Len(c) \/ k = 0
    THEN c
    ELSE LET s == c[i] + k
         IN  AddCarry([c EXCEPT ![i] = s % LimbBase], i + 1, s \div LimbBase)

RECURSIVE SubBorrow(_, _, _)
SubBorrow(c, i, k) ==
    IF i > Len(c) \/ k = 0
    THEN c
    ELSE LET d == c[i] - k
         IN  IF d >= 0
             THEN [c EXCEPT ![i] = d]
             ELSE SubBorrow([c EXCEPT ![i] = d + LimbBase], i + 1, 1)

\* the value stored by AtomicU64::fetch_add(n) / fetch_sub(n), n < LimbBase
fetch_add(c, n) == AddCarry(c, 1, n)
fetch_sub(c, n) == SubBorrow(c, 1, n)

RECURSIVE LeqFrom(_, _, _)
LeqFrom(a, b, i) ==
    IF i = 0 THEN TRUE
    ELSE IF a[i] # b[i] THEN a[i] < b[i]
    ELSE LeqFrom(a, b, i - 1)

\* a <= b as unsigned 64-bit values
U64Leq(a, b) == LeqFrom(a, b, Len(a))

\* ------------------------------------------------------------------- state
VARIABLES
    cfg,               \* the receiver's immutable config, and which receiver it is
    chan,              \* messages held by the bounded channel, oldest first
    closed,            \* the channel's producer side has been closed
    stats,             \* the stats block: field name -> AtomicU64
    counting,          \* the messages whose try_send has enqueued them and has
                       \* its fetch_add still to do (one producer thread each)
    ret,               \* what the try_send call that returned last returned:
                       \* its kind, and the message inside the error
    accepted,          \* the messages whose try_send has returned Ok(())
    nextMsg,           \* the next message a producer will send
    closeReturned,     \* close() has been called and has returned
    pc,                \* the poller's position
    curMsg,            \* poller local: the message just pulled from the channel
    group,             \* poller local: the dispatch unit's messages being submitted
    items,             \* the chunking stage's accumulated messages (batched)
    rxDone,            \* the chunking stage's fused view of rx has ended (batched)
    streamDone,        \* buffer_unordered's fused view of the mapped stream has ended
    in_progress_queue, \* buffer_unordered's set of submitted, uncollected units
    dispatched,        \* the units submitted so far, in submission order
    unitSt,            \* per unit: "spawned" | "running" | "Ok" | "Err" | "Panic",
                       \* and "joined" once the poller has taken its result
    sendOf,            \* the error message of the bus.send being awaited:
                       \* Some(unit) for a handler's, Some(0) for the finalize
                       \* hook's, None when no send is in flight
    finSt,             \* the finalize task: "none" | "spawned" | "running" | "Ok" | "Err" | "Panic"
    syncCalls          \* how many times the handler's sync(bus) hook was entered

vars == << cfg, chan, closed, stats, counting, ret, accepted, nextMsg,
           closeReturned, pc, curMsg, group, items, rxDone, streamDone,
           in_progress_queue, dispatched, unitSt, sendOf, finSt, syncCalls >>

prodVars == << counting, ret, accepted, nextMsg >>
pollerLocals == << curMsg, group, items, rxDone, streamDone >>
workVars == << in_progress_queue, dispatched, unitSt >>
finVars == << finSt, syncCalls >>

\* --------------------------------------------------------------- configs
\* BufferUnorderedConfig { buffer_size, max_parallel }
BufferUnorderedConfig ==
    { [variant |-> "single", buffer_size |-> b, max_parallel |-> k,
       batch_size |-> 1, when_ready |-> FALSE] :
         b \in 1 .. MaxBuffer, k \in 1 .. MaxParallel }

\* BufferUnorderedBatchedConfig { buffer_size, max_parallel, batch_size, when_ready }
BufferUnorderedBatchedConfig ==
    { [variant |-> "batched", buffer_size |-> b, max_parallel |-> k,
       batch_size |-> s, when_ready |-> w] :
         b \in 1 .. MaxBuffer, k \in 1 .. MaxParallel,
         s \in 1 .. MaxBatch, w \in BOOLEAN }

Batched == cfg.variant = "batched"

\* BufferUnorderedStats / BufferUnorderedBatchedStats as built by subscribe()
NewStats(c) ==
    IF c.variant = "single"
    THEN [buffer |-> AtomicU64_new(0),
          buffer_total |-> AtomicU64_new(c.buffer_size),
          parallel |-> AtomicU64_new(0),
          parallel_total |-> AtomicU64_new(c.max_parallel)]
    ELSE [buffer |-> AtomicU64_new(0),
          buffer_total |-> AtomicU64_new(c.buffer_size),
          parallel |-> AtomicU64_new(0),
          parallel_total |-> AtomicU64_new(c.max_parallel),
          batch |-> AtomicU64_new(0),
          batch_size |-> AtomicU64_new(c.batch_size)]

\* (fault: the channel is asked for one slot too many)
channel_capacity_plus_one(c) == c.buffer_size + 1
\* mpsc::channel(cfg.buffer_size): the capacity subscribe() asks the channel for
channel_capacity(c) == c.buffer_size

\* ----------------------------------------------------- the bounded channel
\* crate::receivers::mpsc: a bounded queue with immediate feedback.
\* try_send on a closed channel fails with Closed(m), on a full one with
\* Full(m), and otherwise appends m.
tx_try_send(ch, isClosed, cap, m) ==
    IF isClosed THEN [kind |-> "Closed", msg |-> Some(m), chan |-> ch]
    ELSE IF Len(ch) >= cap THEN [kind |-> "Full", msg |-> Some(m), chan |-> ch]
    ELSE [kind |-> "Ok", msg |-> None, chan |-> Append(ch, m)]

\* the consuming end's poll_next: "Some" with the oldest message, "None" once
\* the channel is closed and empty, "Pending" while it is open and empty
rx_poll_next(ch, isClosed) ==
    IF ch # << >> THEN "Some"
    ELSE IF isClosed THEN "None"
    ELSE "Pending"

\* ---------------------------------------------------------------- Init
Init ==
    /\ cfg \in BufferUnorderedConfig \cup BufferUnorderedBatchedConfig
    /\ chan = << >>
    /\ closed = FALSE
    /\ stats = NewStats(cfg)
    /\ counting = {}
    /\ ret = [kind |-> "none", msg |-> None]
    /\ accepted = {}
    /\ nextMsg = 1
    /\ closeReturned = FALSE
    /\ pc = "init"
    /\ curMsg = None
    /\ group = << >>
    /\ items = << >>
    /\ rxDone = FALSE
    /\ streamDone = FALSE
    /\ in_progress_queue = {}
    /\ dispatched = << >>
    /\ unitSt = << >>
    /\ sendOf = None
    /\ finSt = "none"
    /\ syncCalls = 0

\* ------------------------------------------------------ the receiver handle
\* try_send, first half, on a producer thread that is not inside try_send:
\* self.tx.try_send(m).  On Err the error is returned as it is; on Ok the
\* counter update is still to come.
TrySend ==
    /\ Cardinality(counting) < NumProducers
    /\ nextMsg <= MaxMsgs
    /\ LET m == nextMsg
           r == tx_try_send(chan, closed, channel_capacity(cfg), m)
       IN  /\ nextMsg' = nextMsg + 1
           /\ chan' = r.chan
           /\ IF r.kind = "Ok"
              THEN /\ counting' = counting \cup {m}
                   /\ UNCHANGED ret
              ELSE /\ ret' = [kind |-> r.kind, msg |-> r.msg]
                   /\ UNCHANGED counting
           /\ UNCHANGED accepted
    /\ UNCHANGED << cfg, closed, stats, closeReturned, pc, pollerLocals, workVars,
                    sendOf, finVars >>

\* (fault: the counter is bumped twice)
TrySendCountTwice(m) ==
    /\ m \in counting
    /\ stats' = [stats EXCEPT !.buffer = fetch_add(@, 2)]
    /\ counting' = counting \ {m}
    /\ accepted' = accepted \cup {m}
    /\ ret' = [kind |-> "Ok", msg |-> None]
    /\ UNCHANGED << cfg, chan, closed, nextMsg, closeReturned, pc, pollerLocals,
                    workVars, sendOf, finVars >>

\* try_send, second half: stats.buffer.fetch_add(1); Ok(())
TrySendCount(m) ==
    /\ m \in counting
    /\ stats' = [stats EXCEPT !.buffer = fetch_add(@, 1)]
    /\ counting' = counting \ {m}
    /\ accepted' = accepted \cup {m}
    /\ ret' = [kind |-> "Ok", msg |-> None]
    /\ UNCHANGED << cfg, chan, closed, nextMsg, closeReturned, pc, pollerLocals,
                    workVars, sendOf, finVars >>

\* (fault: close() flushes instead of closing)
CloseOnlyFlushes ==
    /\ ~closeReturned
    /\ closeReturned' = TRUE
    /\ UNCHANGED << cfg, chan, closed, stats, prodVars, pc, pollerLocals, workVars,
                    sendOf, finVars >>

\* close(): self.tx.close()
Close ==
    /\ ~closeReturned
    /\ closed' = TRUE
    /\ closeReturned' = TRUE
    /\ UNCHANGED << cfg, chan, stats, prodVars, pc, pollerLocals, workVars,
                    sendOf, finVars >>

\* ------------------------------------------------------- the worker pool
\* the unit's task has ended: its join handle is ready, or was already taken
Finished(u) == unitSt[u] \in {"Ok", "Err", "Panic", "joined"}
Units == 1 .. Len(dispatched)
Running == { u \in Units : unitSt[u] = "running" }

\* a blocking-pool thread picks the unit up and enters handle(msg, &bus)
HandlerEnter(u) ==
    /\ unitSt[u] = "spawned"
    /\ unitSt' = [unitSt EXCEPT ![u] = "running"]
    /\ UNCHANGED << cfg, chan, closed, stats, prodVars, closeReturned, pc,
                    pollerLocals, in_progress_queue, dispatched, sendOf, finVars >>

\* handle returns Ok(()) or Err(e), or panics (the join result is then Err)
HandlerExit(u) ==
    /\ unitSt[u] = "running"
    /\ \E r \in {"Ok", "Err", "Panic"} : unitSt' = [unitSt EXCEPT ![u] = r]
    /\ UNCHANGED << cfg, chan, closed, stats, prodVars, closeReturned, pc,
                    pollerLocals, in_progress_queue, dispatched, sendOf, finVars >>

\* ------------------------------------------------------------- the poller
\* (fault: the bound is tested with <=)
HasRoomOffByOne == Cardinality(in_progress_queue) <= cfg.max_parallel
\* .buffer_unordered(cfg.max_parallel): the fill loop pulls from the stream
\* only while the queue of units holds fewer than max_parallel
HasRoom == Cardinality(in_progress_queue) < cfg.max_parallel

\* (fault: the loop ends without waiting for the units in flight)
LoopEndsOnStreamEnd == streamDone
\* x.next() yields None, ending the while-let loop: the stream has ended and
\* every submitted unit has been collected
LoopEnds == in_progress_queue = {} /\ streamDone

\* the poller future is first polled: ut.downcast_sync::<T>().unwrap() and the
\* construction of the stream pipeline
PollerStart ==
    /\ pc = "init"
    /\ pc' = "fill"
    /\ UNCHANGED << cfg, chan, closed, stats, prodVars, closeReturned,
                    pollerLocals, workVars, sendOf, finVars >>

\* (fault: the newest message of the channel is taken, not the oldest)
S_PollRxNewestFirst ==
    /\ pc = "fill"
    /\ ~Batched
    /\ HasRoom
    /\ ~streamDone
    /\ LET r == rx_poll_next(chan, closed)
       IN  CASE r = "Some" ->
                  /\ curMsg' = Some(chan[Len(chan)])
                  /\ chan' = SubSeq(chan, 1, Len(chan) - 1)
                  /\ pc' = "map_sub"
                  /\ UNCHANGED streamDone
             [] r = "None" ->
                  /\ streamDone' = TRUE
                  /\ pc' = "poll_queue"
                  /\ UNCHANGED << curMsg, chan >>
             [] r = "Pending" ->
                  /\ pc' = "poll_queue"
                  /\ UNCHANGED << curMsg, chan, streamDone >>
    /\ UNCHANGED << cfg, closed, stats, prodVars, closeReturned, group, items,
                    rxDone, workVars, sendOf, finVars >>

\* single: buffer_unordered polls rx.map(..): rx.poll_next
S_PollRx ==
    /\ pc = "fill"
    /\ ~Batched
    /\ HasRoom
    /\ ~streamDone
    /\ LET r == rx_poll_next(chan, closed)
       IN  CASE r = "Some" ->
                  /\ curMsg' = Some(Head(chan))
                  /\ chan' = Tail(chan)
                  /\ pc' = "map_sub"
                  /\ UNCHANGED streamDone
             [] r = "None" ->
                  /\ streamDone' = TRUE
                  /\ pc' = "poll_queue"
                  /\ UNCHANGED << curMsg, chan >>
             [] r = "Pending" ->
                  /\ pc' = "poll_queue"
                  /\ UNCHANGED << curMsg, chan, streamDone >>
    /\ UNCHANGED << cfg, closed, stats, prodVars, closeReturned, group, items,
                    rxDone, workVars, sendOf, finVars >>

\* single: the map closure's stats.buffer.fetch_sub(1)
S_MapSub ==
    /\ pc = "map_sub"
    /\ ~Batched
    /\ stats' = [stats EXCEPT !.buffer = fetch_sub(@, 1)]
    /\ group' = << curMsg[1] >>
    /\ curMsg' = None
    /\ pc' = "map_add"
    /\ UNCHANGED << cfg, chan, closed, prodVars, closeReturned, items, rxDone,
                    streamDone, workVars, sendOf, finVars >>

\* the fill loop is left without polling the stream: the queue is full, or
\* the fused stream has already ended
FillSkip ==
    /\ pc = "fill"
    /\ ~HasRoom \/ streamDone
    /\ pc' = "poll_queue"
    /\ UNCHANGED << cfg, chan, closed, stats, prodVars, closeReturned,
                    pollerLocals, workVars, sendOf, finVars >>

\* (fault: the chunking stage is polled whether or not the queue has room)
B_PollChunksIgnoresBound ==
    /\ pc = "fill"
    /\ Batched
    /\ ~streamDone
    /\ pc' = "chunk"
    /\ UNCHANGED << cfg, chan, closed, stats, prodVars, closeReturned,
                    pollerLocals, workVars, sendOf, finVars >>

\* batched: buffer_unordered polls the chunking stage
B_PollChunks ==
    /\ pc = "fill"
    /\ Batched
    /\ HasRoom
    /\ ~streamDone
    /\ pc' = "chunk"
    /\ UNCHANGED << cfg, chan, closed, stats, prodVars, closeReturned,
                    pollerLocals, workVars, sendOf, finVars >>

\* (fault: the end of rx ends the stream without flushing the partial group)
B_ChunkPollDropsTail ==
    /\ pc = "chunk"
    /\ LET r == IF rxDone THEN "None" ELSE rx_poll_next(chan, closed)
       IN  CASE r = "Some" ->
                  /\ curMsg' = Some(Head(chan))
                  /\ chan' = Tail(chan)
                  /\ pc' = "insp_sub"
                  /\ UNCHANGED << group, items, rxDone, streamDone >>
             [] r = "None" ->
                  /\ rxDone' = TRUE
                  /\ streamDone' = TRUE
                  /\ pc' = "poll_queue"
                  /\ UNCHANGED << group, items >>
                  /\ UNCHANGED << curMsg, chan >>
             [] r = "Pending" ->
                  /\ IF cfg.when_ready /\ items # << >>
                     THEN /\ group' = items
                          /\ items' = << >>
                          /\ pc' = "map_sub"
                     ELSE /\ pc' = "poll_queue"
                          /\ UNCHANGED << group, items >>
                  /\ UNCHANGED << curMsg, chan, rxDone, streamDone >>
    /\ UNCHANGED << cfg, closed, stats, prodVars, closeReturned, workVars,
                    sendOf, finVars >>

\* (fault: chunks and ready_chunks are swapped, strict mode flushes on Pending)
B_ChunkPollModesSwapped ==
    /\ pc = "chunk"
    /\ LET r == IF rxDone THEN "None" ELSE rx_poll_next(chan, closed)
       IN  CASE r = "Some" ->
                  /\ curMsg' = Some(Head(chan))
                  /\ chan' = Tail(chan)
                  /\ pc' = "insp_sub"
                  /\ UNCHANGED << group, items, rxDone, streamDone >>
             [] r = "None" ->
                  /\ rxDone' = TRUE
                  /\ IF items = << >>
                     THEN /\ streamDone' = TRUE
                          /\ pc' = "poll_queue"
                          /\ UNCHANGED << group, items >>
                     ELSE /\ group' = items
                          /\ items' = << >>
                          /\ pc' = "map_sub"
                          /\ UNCHANGED streamDone
                  /\ UNCHANGED << curMsg, chan >>
             [] r = "Pending" ->
                  /\ IF ~cfg.when_ready /\ items # << >>
                     THEN /\ group' = items
                          /\ items' = << >>
                          /\ pc' = "map_sub"
                     ELSE /\ pc' = "poll_queue"
                          /\ UNCHANGED << group, items >>
                  /\ UNCHANGED << curMsg, chan, rxDone, streamDone >>
    /\ UNCHANGED << cfg, closed, stats, prodVars, closeReturned, workVars,
                    sendOf, finVars >>

\* batched: one turn of the loop in chunks(batch_size) (when_ready = false) or
\* ready_chunks(batch_size) (when_ready = true) polling rx.inspect(..)
B_ChunkPoll ==
    /\ pc = "chunk"
    /\ LET r == IF rxDone THEN "None" ELSE rx_poll_next(chan, closed)
       IN  CASE r = "Some" ->
                  /\ curMsg' = Some(Head(chan))
                  /\ chan' = Tail(chan)
                  /\ pc' = "insp_sub"
                  /\ UNCHANGED << group, items, rxDone, streamDone >>
             [] r = "None" ->
                  /\ rxDone' = TRUE
                  /\ IF items = << >>
                     THEN /\ streamDone' = TRUE
                          /\ pc' = "poll_queue"
                          /\ UNCHANGED << group, items >>
                     ELSE /\ group' = items
                          /\ items' = << >>
                          /\ pc' = "map_sub"
                          /\ UNCHANGED streamDone
                  /\ UNCHANGED << curMsg, chan >>
             [] r = "Pending" ->
                  /\ IF cfg.when_ready /\ items # << >>
                     THEN /\ group' = items
                          /\ items' = << >>
                          /\ pc' = "map_sub"
                     ELSE /\ pc' = "poll_queue"
                          /\ UNCHANGED << group, items >>
                  /\ UNCHANGED << curMsg, chan, rxDone, streamDone >>
    /\ UNCHANGED << cfg, closed, stats, prodVars, closeReturned, workVars,
                    sendOf, finVars >>

\* batched: the inspect closure's stats.buffer.fetch_sub(1)
B_InspectSub ==
    /\ pc = "insp_sub"
    /\ stats' = [stats EXCEPT !.buffer = fetch_sub(@, 1)]
    /\ pc' = "insp_add"
    /\ UNCHANGED << cfg, chan, closed, prodVars, closeReturned, pollerLocals,
                    workVars, sendOf, finVars >>

\* (fault: the chunking stage hands every message on as a group of its own)
B_InspectAddFlushesEach ==
    /\ pc = "insp_add"
    /\ stats' = [stats EXCEPT !.batch = fetch_add(@, 1)]
    /\ group' = Append(items, curMsg[1])
    /\ items' = << >>
    /\ pc' = "map_sub"
    /\ curMsg' = None
    /\ UNCHANGED << cfg, chan, closed, prodVars, closeReturned, rxDone,
                    streamDone, workVars, sendOf, finVars >>

\* batched: the inspect closure's stats.batch.fetch_add(1); the chunking stage
\* then pushes the message and hands the group on once it holds batch_size
B_InspectAdd ==
    /\ pc = "insp_add"
    /\ stats' = [stats EXCEPT !.batch = fetch_add(@, 1)]
    /\ LET pushed == Append(items, curMsg[1])
       IN  IF Len(pushed) >= cfg.batch_size
           THEN /\ group' = pushed
                /\ items' = << >>
                /\ pc' = "map_sub"
           ELSE /\ items' = pushed
                /\ pc' = "chunk"
                /\ UNCHANGED group
    /\ curMsg' = None
    /\ UNCHANGED << cfg, chan, closed, prodVars, closeReturned, rxDone,
                    streamDone, workVars, sendOf, finVars >>

\* (fault: batch is decremented by one per group, not by the group's size)
B_MapSubByOne ==
    /\ pc = "map_sub"
    /\ Batched
    /\ stats' = [stats EXCEPT !.batch = fetch_sub(@, 1)]
    /\ pc' = "map_add"
    /\ UNCHANGED << cfg, chan, closed, prodVars, closeReturned, pollerLocals,
                    workVars, sendOf, finVars >>

\* batched: the map closure's stats.batch.fetch_sub(msgs.len())
B_MapSub ==
    /\ pc = "map_sub"
    /\ Batched
    /\ stats' = [stats EXCEPT !.batch = fetch_sub(@, Len(group))]
    /\ pc' = "map_add"
    /\ UNCHANGED << cfg, chan, closed, prodVars, closeReturned, pollerLocals,
                    workVars, sendOf, finVars >>

\* (fault: parallel counts the messages of the unit, not the unit)
MapAddPerMessage ==
    /\ pc = "map_add"
    /\ stats' = [stats EXCEPT !.parallel = fetch_add(@, Len(group))]
    /\ pc' = "spawn"
    /\ UNCHANGED << cfg, chan, closed, prodVars, closeReturned, pollerLocals,
                    workVars, sendOf, finVars >>

\* the map closure's stats.parallel.fetch_add(1)
MapAdd ==
    /\ pc = "map_add"
    /\ stats' = [stats EXCEPT !.parallel = fetch_add(@, 1)]
    /\ pc' = "spawn"
    /\ UNCHANGED << cfg, chan, closed, prodVars, closeReturned, pollerLocals,
                    workVars, sendOf, finVars >>

\* the map closure's tokio::task::spawn_blocking(..); buffer_unordered pushes
\* the join handle on its queue and goes round its fill loop again
Spawn ==
    /\ pc = "spawn"
    /\ dispatched' = Append(dispatched, group)
    /\ unitSt' = Append(unitSt, "spawned")
    /\ in_progress_queue' = in_progress_queue \cup {Len(dispatched) + 1}
    /\ group' = << >>
    /\ pc' = "fill"
    /\ UNCHANGED << cfg, chan, closed, stats, prodVars, closeReturned, curMsg,
                    items, rxDone, streamDone, sendOf, finVars >>

\* (fault: a handler error abandons the drain)
LoopBodyStopsOnError(u) ==
    /\ stats' = [stats EXCEPT !.parallel = fetch_sub(@, 1)]
    /\ unitSt' = [unitSt EXCEPT ![u] = "joined"]
    /\ IF unitSt[u] = "Err"
       THEN /\ sendOf' = Some(u)
            /\ streamDone' = TRUE
            /\ in_progress_queue' = {}
            /\ pc' = "send"
       ELSE /\ pc' = "fill"
            /\ in_progress_queue' = in_progress_queue \ {u}
            /\ UNCHANGED << sendOf, streamDone >>

\* (fault: parallel is decremented in the success arm only)
LoopBodyCountsSuccessOnly(u) ==
    /\ stats' = IF unitSt[u] = "Ok"
                THEN [stats EXCEPT !.parallel = fetch_sub(@, 1)]
                ELSE stats
    /\ in_progress_queue' = in_progress_queue \ {u}
    /\ unitSt' = [unitSt EXCEPT ![u] = "joined"]
    /\ IF unitSt[u] = "Err"
       THEN /\ sendOf' = Some(u)
            /\ pc' = "send"
       ELSE /\ pc' = "fill"
            /\ UNCHANGED sendOf
    /\ UNCHANGED streamDone

\* (fault: a join error is forwarded to the bus like a handler error)
LoopBodyForwardsJoinError(u) ==
    /\ stats' = [stats EXCEPT !.parallel = fetch_sub(@, 1)]
    /\ in_progress_queue' = in_progress_queue \ {u}
    /\ unitSt' = [unitSt EXCEPT ![u] = "joined"]
    /\ IF unitSt[u] \in {"Err", "Panic"}
       THEN /\ sendOf' = Some(u)
            /\ pc' = "send"
       ELSE /\ pc' = "fill"
            /\ UNCHANGED sendOf
    /\ UNCHANGED streamDone

\* the loop body for a collected unit u: stats.parallel.fetch_sub(1), then the
\* match on its join result; only Ok(Err(err)) calls bus.send(..)
LoopBody(u) ==
    /\ stats' = [stats EXCEPT !.parallel = fetch_sub(@, 1)]
    /\ in_progress_queue' = in_progress_queue \ {u}
    /\ unitSt' = [unitSt EXCEPT ![u] = "joined"]
    /\ IF unitSt[u] = "Err"
       THEN /\ sendOf' = Some(u)
            /\ pc' = "send"
       ELSE /\ pc' = "fill"
            /\ UNCHANGED sendOf
    /\ UNCHANGED streamDone

\* buffer_unordered polls its queue: some finished unit (whichever, not the
\* oldest) is yielded by x.next() and the loop body runs for it
Collect ==
    /\ pc = "poll_queue"
    /\ \E u \in in_progress_queue :
         /\ Finished(u)
         /\ LoopBody(u)
    /\ UNCHANGED << cfg, chan, closed, prodVars, closeReturned, curMsg, group,
                    items, rxDone, dispatched, finVars >>

\* x.next() is Pending: nothing finished, and the loop has not ended
Park ==
    /\ pc = "poll_queue"
    /\ ~ \E u \in in_progress_queue : Finished(u)
    /\ ~LoopEnds
    /\ pc' = "parked"
    /\ UNCHANGED << cfg, chan, closed, stats, prodVars, closeReturned,
                    pollerLocals, workVars, sendOf, finVars >>

\* (fault: the close of the channel does not wake the parked poller)
WakeCondMissesClose ==
    \/ \E u \in in_progress_queue : Finished(u)
    \/ HasRoom /\ ~streamDone /\ ~rxDone /\ chan # << >>

\* the parked poller is woken: by a finished unit, or by the channel when the
\* last poll had left the stream pending
WakeCond ==
    \/ \E u \in in_progress_queue : Finished(u)
    \/ HasRoom /\ ~streamDone /\ (rxDone \/ rx_poll_next(chan, closed) # "Pending")

Wake ==
    /\ pc = "parked"
    /\ WakeCond
    /\ pc' = "fill"
    /\ UNCHANGED << cfg, chan, closed, stats, prodVars, closeReturned,
                    pollerLocals, workVars, sendOf, finVars >>

\* bus.send(msgs::Error(..)).await completes; its result is dropped (let _ =)
BusSendDone ==
    /\ pc \in {"send", "fin_send"}
    /\ \E sent \in BOOLEAN : pc' = IF pc = "send" THEN "fill" ELSE "done"
    /\ sendOf' = None
    /\ UNCHANGED << cfg, chan, closed, stats, prodVars, closeReturned,
                    pollerLocals, workVars, finVars >>

\* the loop has ended: spawn_blocking(.. sync(&bus_clone)) and await it
FinalizeSpawn ==
    /\ pc = "poll_queue"
    /\ LoopEnds
    /\ finSt' = "spawned"
    /\ pc' = "fin_wait"
    /\ UNCHANGED << cfg, chan, closed, stats, prodVars, closeReturned,
                    pollerLocals, workVars, sendOf, syncCalls >>

\* a blocking-pool thread enters the handler's sync(&bus)
SyncEnter ==
    /\ finSt = "spawned"
    /\ finSt' = "running"
    /\ syncCalls' = syncCalls + 1
    /\ UNCHANGED << cfg, chan, closed, stats, prodVars, closeReturned, pc,
                    pollerLocals, workVars, sendOf >>

\* sync returns Ok(()) or Err(e), or panics
SyncExit ==
    /\ finSt = "running"
    /\ \E r \in {"Ok", "Err", "Panic"} : finSt' = r
    /\ UNCHANGED << cfg, chan, closed, stats, prodVars, closeReturned, pc,
                    pollerLocals, workVars, sendOf, syncCalls >>

\* the awaited finalize task is joined: match res; then the [EXIT] line
FinalizeJoin ==
    /\ pc = "fin_wait"
    /\ finSt \in {"Ok", "Err", "Panic"}
    /\ IF finSt = "Err"
       THEN /\ sendOf' = Some(0)
            /\ pc' = "fin_send"
       ELSE /\ pc' = "done"
            /\ UNCHANGED sendOf
    /\ UNCHANGED << cfg, chan, closed, stats, prodVars, closeReturned,
                    pollerLocals, workVars, finVars >>

Poller ==
    \/ PollerStart
    \/ S_PollRx
    \/ S_MapSub
    \/ FillSkip
    \/ B_PollChunks
    \/ B_ChunkPoll
    \/ B_InspectSub
    \/ B_InspectAdd
    \/ B_MapSub
    \/ MapAdd
    \/ Spawn
    \/ Collect
    \/ Park
    \/ Wake
    \/ FinalizeSpawn
    \/ FinalizeJoin

Workers ==
    \/ \E u \in Units : HandlerEnter(u)
    \/ \E u \in Units : HandlerExit(u)
    \/ SyncEnter
    \/ SyncExit

Next ==
    \/ TrySend
    \/ \E m \in Msgs : TrySendCount(m)
    \/ Close
    \/ Poller
    \/ Workers
    \/ BusSendDone

Spec == Init /\ [][Next]_vars

\* The runtime keeps polling a poller that can make progress, the blocking
\* pool runs every task it was given, a try_send that has enqueued goes on to
\* its counter update, and the bus completes every send it was asked for.
FairSpec ==
    /\ Spec
    /\ WF_vars(Poller)
    /\ WF_vars(Workers)
    /\ WF_vars(\E m \in Msgs : TrySendCount(m))
    /\ WF_vars(BusSendDone)

\* ================================================================= claims

\* ---- what has been handed to the handler
\* the units whose group contains message m
UnitsOf(m) == { u \in Units : \E i \in 1 .. Len(dispatched[u]) : dispatched[u][i] = m }

\* how many times m occurs over the groups of units 1 .. u
RECURSIVE Occurrences(_, _)
Occurrences(m, u) ==
    IF u = 0 THEN 0
    ELSE Cardinality({ i \in 1 .. Len(dispatched[u]) : dispatched[u][i] = m })
         + Occurrences(m, u - 1)

TimesDispatched(m) == Occurrences(m, Len(dispatched))

\* m's handler invocation has been entered / has ended
PassedToHandler(m) == \E u \in UnitsOf(m) : unitSt[u] # "spawned"
HandledToCompletion(m) == \E u \in UnitsOf(m) : Finished(u)

\* m was put in the channel (its try_send has returned Ok or is about to)
Enqueued(m) == m \in counting \cup accepted

\* a step that is the first half of a try_send call
IsTrySendCall == nextMsg' # nextMsg

\* a step in which the poller takes unit u's result from its queue
Collects(u) == u \in in_progress_queue /\ u \notin in_progress_queue'

\* C1: for every max_parallel = K >= 1 and every arrival pattern, in both
\* receivers, the number of handler invocations that have been entered and
\* have not yet returned is at most K.
C1_ActiveInvocationsBounded == Cardinality(Running) <= cfg.max_parallel

\* K invocations are active while a further message of the burst waits in
\* the channel
C1_Witness ==
    /\ Cardinality(Running) = cfg.max_parallel
    /\ cfg.max_parallel > 1
    /\ chan # << >>

\* C2: the finalize hook sync(bus) is entered at most once, only after the
\* channel has been closed and emptied and every submitted handler
\* invocation has ended, with no pulled message left unsubmitted; a poller
\* that has terminated has entered it exactly once.
C2_FinalizeOnceAfterDrain ==
    /\ syncCalls <= 1
    /\ syncCalls = 1 =>
         /\ closed /\ closeReturned
         /\ chan = << >>
         /\ \A u \in Units : Finished(u)
         /\ in_progress_queue = {}
         /\ curMsg = None /\ group = << >> /\ items = << >>
    /\ pc = "done" => syncCalls = 1

\* the poller has terminated after handling messages that were buffered
\* when close() was called
C2_Witness ==
    /\ pc = "done"
    /\ syncCalls = 1
    /\ Len(dispatched) >= 2

\* C3: no message is ever passed to the handler twice (in the batched
\* receiver: is in two groups, or twice in one), also after a handler error;
\* once the poller has terminated every message whose try_send returned Ok
\* has been passed to the handler exactly once.
C3_HandledAtMostOnceAndAllAtExit ==
    /\ \A m \in Msgs : TimesDispatched(m) <= 1
    /\ pc = "done" =>
         \A m \in accepted : TimesDispatched(m) = 1 /\ PassedToHandler(m)

\* the poller has terminated and every one of the sends was accepted
C3_Witness ==
    /\ pc = "done"
    /\ accepted = Msgs

\* C4: a try_send made while the open channel holds buffer_size messages
\* (buffer_size accepted, none pulled) fails with Full carrying the message
\* it was given, and leaves the channel as it was.
C4_FullAtCapacity ==
    [][ (IsTrySendCall /\ ~closed /\ Len(chan) = cfg.buffer_size) =>
          /\ ret' = [kind |-> "Full", msg |-> Some(nextMsg)]
          /\ chan' = chan
          /\ UNCHANGED << counting, accepted >> ]_vars

\* buffer_size = 2: two sends accepted, nothing pulled, the third rejected
C4_Witness ==
    /\ cfg.buffer_size = 2
    /\ pc = "init"
    /\ chan = << 1, 2 >>
    /\ ret = [kind |-> "Full", msg |-> Some(3)]

\* C5: a try_send that succeeds adds exactly 1 to buffer (its enqueue step
\* changes no counter, its counting step changes buffer alone); a try_send
\* that fails returns the message it was given and changes no stats field.
C5_TrySendStatsEffect ==
    [][ /\ IsTrySendCall =>
             /\ stats' = stats
             /\ counting' = counting =>
                  /\ ret'.kind \in {"Full", "Closed"}
                  /\ ret'.msg = Some(nextMsg)
        /\ \A m \in Msgs : (m \in counting /\ m \notin counting') =>
             /\ ret' = [kind |-> "Ok", msg |-> None]
             /\ fetch_sub(stats'.buffer, 1) = stats.buffer
             /\ \A f \in DOMAIN stats \ {"buffer"} : stats'[f] = stats[f]
             /\ DOMAIN stats' = DOMAIN stats ]_vars

\* a send has been accepted and counted, and a later one was rejected
C5_Witness ==
    /\ accepted # {}
    /\ ret.kind = "Closed"
    /\ stats.buffer = AtomicU64_new(1)

\* C6: once close() has returned every try_send call fails, carrying its
\* message and leaving the channel as it was, however much room the channel
\* has; and close() can always be called and return at once, whatever is
\* still buffered or in flight.
C6_NoSendAfterClose ==
    /\ [](~closeReturned => ENABLED Close)
    /\ [][ (closeReturned /\ IsTrySendCall) =>
             /\ ret'.kind \in {"Closed", "Full"}
             /\ ret'.msg = Some(nextMsg)
             /\ chan' = chan
             /\ UNCHANGED << counting, accepted >> ]_vars

\* close() returned while a message was still buffered and unhandled, and a
\* later try_send was rejected although the channel had room
C6_Witness ==
    /\ closeReturned
    /\ pc = "init"
    /\ chan # << >> /\ Len(chan) < cfg.buffer_size
    /\ ret.kind = "Closed"

\* C7: the buffer counter, as an unsigned 64-bit value, is at most
\* buffer_total in every reachable state.
C7_BufferWithinTotal == U64Leq(stats.buffer, stats.buffer_total)

\* C8: the parallel counter is at most parallel_total in every reachable
\* state, in both receivers.
C8_ParallelWithinTotal == U64Leq(stats.parallel, stats.parallel_total)

\* the counter stands at its bound while the poller has units in flight
C8_Witness ==
    /\ stats.parallel = stats.parallel_total
    /\ Cardinality(in_progress_queue) = cfg.max_parallel
    /\ pc = "parked"

\* C9: after close() has returned the buffer counter never increases, and it
\* is 0 when the finalize hook is entered.
C9_BufferDrainsAfterClose ==
    [][ /\ closeReturned => U64Leq(stats'.buffer, stats.buffer)
        /\ syncCalls' > syncCalls => stats.buffer = AtomicU64_new(0) ]_vars

\* the poller will get to every message the channel holds without anything
\* more being sent: always in the single receiver and in ready mode, and in
\* strict mode once the channel is closed
WillDrain == closed \/ ~Batched \/ cfg.when_ready

\* C10: collecting a unit whose handler returned Err starts exactly one
\* bus.send, for that unit, and otherwise leaves the channel, the chunking
\* stage, the queue and the other units as collecting an Ok unit does;
\* collecting any other unit starts no send; no send starts in any other way
\* but for the finalize hook's error; when the send completes the loop goes
\* on; and every enqueued message is still handled to completion.
C10_ErrorIsolation ==
    /\ [][ \A u \in Units : Collects(u) =>
             /\ IF unitSt[u] = "Err"
                THEN pc' = "send" /\ sendOf' = Some(u)
                ELSE pc' = "fill" /\ sendOf' = None
             /\ in_progress_queue' = in_progress_queue \ {u}
             /\ \A v \in Units \ {u} : unitSt'[v] = unitSt[v]
             /\ UNCHANGED << chan, closed, items, rxDone, streamDone, dispatched >> ]_vars
    /\ [][ (sendOf' # sendOf /\ sendOf' # None) =>
             \/ \E u \in Units : Collects(u) /\ unitSt[u] = "Err" /\ sendOf' = Some(u)
             \/ sendOf' = Some(0) /\ finSt = "Err" ]_vars
    /\ [][ (pc = "send" /\ pc' # "send") =>
             /\ pc' = "fill"
             /\ UNCHANGED << chan, closed, stats, pollerLocals, workVars >> ]_vars
    /\ [](sendOf # None <=> pc \in {"send", "fin_send"})
    /\ \A m \in Msgs :
          (pc = "send" /\ WillDrain /\ Enqueued(m)) ~> HandledToCompletion(m)

\* a handler's error is being sent to the bus while another unit is still
\* running and a further message waits in the channel
C10_Witness ==
    /\ pc = "send"
    /\ sendOf # None
    /\ \E u \in in_progress_queue : unitSt[u] = "running"
    /\ chan # << >>

\* The scheduling of FairSpec without its last conjunct: the poller, the
\* blocking pool and the producers run, but the bus is free to leave a send
\* it was asked for pending for ever (its receivers are saturated).
BusSaturatedSpec ==
    /\ Spec
    /\ WF_vars(Poller)
    /\ WF_vars(Workers)
    /\ WF_vars(\E m \in Msgs : TrySendCount(m))

\* C11: forwarding an error never stalls the poller: whether the bus.send of
\* a handler's or the finalize hook's error fails, or stays uncompleted
\* because the error path is saturated, the poller of a closed receiver still
\* collects, drains, finalizes and terminates.
C11_ForwardingNeverStalls == closed ~> pc = "done"

\* the batched receiver in strict mode: chunks(batch_size)
Strict == Batched /\ ~cfg.when_ready

\* C12: in strict mode every group handed to the map closure or submitted has
\* exactly batch_size messages, but for one last, shorter group formed when
\* the channel has been closed and emptied; fewer than batch_size messages
\* wait in the accumulation stage, they leave it only as part of a full group
\* or at the close, and while the poller is parked the batch counter reads
\* their number.
C12_StrictGroupSizes ==
    /\ [](Strict =>
            /\ \A u \in Units :
                 /\ Len(dispatched[u]) \in 1 .. cfg.batch_size
                 /\ Len(dispatched[u]) < cfg.batch_size =>
                      /\ u = Len(dispatched)
                      /\ closed /\ rxDone /\ chan = << >>
                      /\ group = << >> /\ items = << >>
            /\ group # << >> =>
                 \/ Len(group) = cfg.batch_size
                 \/ /\ Len(group) \in 1 .. cfg.batch_size - 1
                    /\ closed /\ rxDone /\ chan = << >> /\ items = << >>
                    /\ \A u \in Units : Len(dispatched[u]) = cfg.batch_size
            /\ Len(items) < cfg.batch_size
            /\ pc = "parked" => stats.batch = AtomicU64_new(Len(items)))
    /\ [][ (Strict /\ items' # items /\ Len(items') <= Len(items)) =>
             /\ items' = << >>
             /\ \/ /\ curMsg # None
                   /\ group' = Append(items, curMsg[1])
                   /\ Len(group') = cfg.batch_size
                \/ group' = items /\ closed /\ chan = << >> ]_vars

\* batch_size = 2, three messages accepted, the channel still open: one group
\* of two was submitted and the third message waits in the accumulation
\* stage, counted by batch, with the poller parked
C12_Witness ==
    /\ Strict
    /\ cfg.batch_size = 2
    /\ ~closed
    /\ accepted = Msgs
    /\ dispatched = << << 1, 2 >> >>
    /\ items = << 3 >>
    /\ stats.batch = AtomicU64_new(1)
    /\ pc = "parked"

\* the batched receiver in ready mode: ready_chunks(batch_size)
Ready == Batched /\ cfg.when_ready

\* a step in which the chunking stage hands a group to the map closure
FormsGroup == group = << >> /\ group' # << >>

\* C13: in ready mode a group is formed from all the messages available: it
\* holds between 1 and batch_size messages, exactly those pulled since the
\* previous group, and at the moment it is formed either it holds batch_size
\* or the channel has nothing more to give; outside a poll of the chunking
\* stage no message is held back in the accumulation stage, so a message
\* arriving at an idle poller starts, and if alone makes up, the next group.
C13_ReadyTakesAllAvailable ==
    /\ [](Ready =>
            /\ \A u \in Units : Len(dispatched[u]) \in 1 .. cfg.batch_size
            /\ Len(group) <= cfg.batch_size
            /\ Len(items) < cfg.batch_size
            /\ pc \notin {"chunk", "insp_sub", "insp_add"} => items = << >> /\ curMsg = None)
    /\ [][ (Ready /\ FormsGroup) =>
             /\ Len(group') \in 1 .. cfg.batch_size
             /\ Len(group') = cfg.batch_size \/ chan = << >>
             /\ group' = IF curMsg = None THEN items ELSE Append(items, curMsg[1])
             /\ items' = << >> /\ curMsg' = None
             /\ chan' = chan ]_vars

\* batch_size = 2: three messages that each found the poller idle were
\* submitted as three groups of one
C13_Witness ==
    /\ Ready
    /\ cfg.batch_size = 2
    /\ dispatched = << << 1 >>, << 2 >>, << 3 >> >>

\* quiescent as the claim lists it: no try_send in progress, no message in
\* the channel, no unit submitted and not yet collected
Quiescent == counting = {} /\ chan = << >> /\ in_progress_queue = {}

\* the poller holds a message it has pulled, or a group it has formed, whose
\* unit it has not submitted yet
PollerHoldsUnsubmitted == curMsg # None \/ group # << >>

RECURSIVE SubmittedUpTo(_)
SubmittedUpTo(u) ==
    IF u = 0 THEN << >> ELSE SubmittedUpTo(u - 1) \o dispatched[u]

Submitted == SubmittedUpTo(Len(dispatched))

\* the messages the channel accepted, in the order it accepted them (a
\* message's number is its position among the try_send calls' enqueues)
RECURSIVE EnqueueOrderFrom(_)
EnqueueOrderFrom(m) ==
    IF m > MaxMsgs THEN << >>
    ELSE (IF Enqueued(m) THEN << m >> ELSE << >>) \o EnqueueOrderFrom(m + 1)

EnqueueOrder == EnqueueOrderFrom(1)

\* C15: the messages submitted so far, in submission order (groups
\* concatenated), are a prefix of the enqueue order, and what follows them in
\* that order is, in turn, the group being submitted, the accumulation
\* stage, the message just pulled and the channel's content.
C15_SubmissionFifo ==
    /\ Len(Submitted) <= Len(EnqueueOrder)
    /\ Submitted = SubSeq(EnqueueOrder, 1, Len(Submitted))
    /\ Submitted \o group \o items \o curMsg \o chan = EnqueueOrder

\* three messages were submitted in enqueue order, and the unit submitted
\* second was collected while the first is still running
C15_Witness ==
    /\ Len(Submitted) = 3
    /\ Len(dispatched) >= 2
    /\ unitSt[1] = "running"
    /\ unitSt[2] = "joined"

\* the poller has left its while-let loop
LoopLeft == pc \in {"fin_wait", "fin_send", "done"}

\* C16: once close() has been called, a started poller eventually terminates,
\* and it has then emptied the channel, had every enqueued message handled to
\* completion and run the finalize hook to its end; while the channel is open
\* the poller neither terminates nor leaves its loop.
C16_TerminatesAfterClose ==
    /\ (closed /\ pc # "init") ~>
          /\ pc = "done"
          /\ chan = << >> /\ items = << >> /\ in_progress_queue = {}
          /\ \A m \in Msgs : Enqueued(m) => HandledToCompletion(m)
          /\ syncCalls = 1 /\ finSt \in {"Ok", "Err", "Panic"}
    /\ [](LoopLeft => closed)

\* the poller has terminated after close(), having handled a message that
\* was still in the channel when close() returned and forwarded the finalize
\* hook's error
C16_Witness ==
    /\ pc = "done"
    /\ closed
    /\ finSt = "Err"
    /\ ret.kind = "Closed"
    /\ Len(dispatched) >= 2

\* max_parallel units are submitted and not yet collected
QueueFull == Cardinality(in_progress_queue) = cfg.max_parallel

\* C17: while max_parallel units are in flight the poller is at its queue,
\* holding no pulled message, and no step removes a message from the
\* channel, decrements buffer or adds to the accumulation stage; the first
\* step to change the queue is the collection of a finished unit.
C17_NoPullWhileFull ==
    /\ [](QueueFull =>
            /\ pc \in {"fill", "poll_queue", "parked", "send"}
            /\ curMsg = None /\ group = << >>)
    /\ [][ QueueFull =>
             /\ Len(chan') >= Len(chan)
             /\ chan # << >> => chan' # << >> /\ Head(chan') = Head(chan)
             /\ stats'.buffer \in {stats.buffer, fetch_add(stats.buffer, 1)}
             /\ items' = items
             /\ curMsg' = None
             /\ in_progress_queue' # in_progress_queue =>
                  \E u \in in_progress_queue :
                     /\ Finished(u)
                     /\ in_progress_queue' = in_progress_queue \ {u} ]_vars

\* max_parallel units run, the poller is parked, the channel has filled up
\* behind them and a further try_send was turned away
C17_Witness ==
    /\ QueueFull
    /\ \A u \in in_progress_queue : unitSt[u] = "running"
    /\ pc = "parked"
    /\ Len(chan) = cfg.buffer_size
    /\ ret.kind = "Full"

\* the messages counted into batch by the inspect closure and not yet counted
\* out of it by the map closure: those the chunking stage holds, and the group
\* it has just yielded while the map closure has its fetch_sub still to do
AccumulationStage == items \o (IF pc = "map_sub" THEN group ELSE << >>)

\* C18: in the batched receiver a pull from the channel is followed by
\* buffer - 1, then batch + 1; a formed group by batch - (its size), then
\* parallel + 1, then the submission of one unit holding the group; each of
\* these steps changes no other counter.  So batch is the number of messages
\* in the accumulation stage and at most batch_size, and parallel counts
\* units, not messages.
C18_BatchedCounterSteps ==
    /\ [](Batched =>
            /\ stats.batch = AtomicU64_new(Len(AccumulationStage))
            /\ U64Leq(stats.batch, stats.batch_size)
            /\ stats.parallel =
                 AtomicU64_new(Cardinality(in_progress_queue)
                               + (IF pc = "spawn" THEN 1 ELSE 0)))
    /\ [][ Batched =>
             /\ Len(chan') < Len(chan) =>
                  /\ chan' = Tail(chan) /\ curMsg' = Some(Head(chan))
                  /\ pc' = "insp_sub" /\ stats' = stats
             /\ (pc = "insp_sub" /\ pc' # pc) =>
                  /\ stats' = [stats EXCEPT !.buffer = fetch_sub(@, 1)]
                  /\ pc' = "insp_add"
             /\ (pc = "insp_add" /\ pc' # pc) =>
                  /\ stats' = [stats EXCEPT !.batch = fetch_add(@, 1)]
                  /\ items' \o (IF pc' = "map_sub" THEN group' ELSE << >>)
                       = Append(items, curMsg[1])
             /\ (pc = "map_sub" /\ pc' # pc) =>
                  /\ stats' = [stats EXCEPT !.batch = fetch_sub(@, Len(group))]
                  /\ pc' = "map_add" /\ group' = group
             /\ (pc = "map_add" /\ pc' # pc) =>
                  /\ stats' = [stats EXCEPT !.parallel = fetch_add(@, 1)]
                  /\ pc' = "spawn" /\ group' = group
             /\ (pc = "spawn" /\ pc' # pc) =>
                  /\ stats' = stats
                  /\ dispatched' = Append(dispatched, group)
                  /\ Cardinality(in_progress_queue') = Cardinality(in_progress_queue) + 1 ]_vars

\* a group of two has been formed with nothing else in flight: batch is back
\* at 0 and parallel at 1, the unit about to be submitted
C18_Witness ==
    /\ Batched
    /\ pc = "spawn"
    /\ Len(group) = 2
    /\ in_progress_queue = {}
    /\ stats.batch = AtomicU64_new(0)
    /\ stats.parallel = AtomicU64_new(1)

\* the poller has reached the end of its future
Terminated == pc = "done"

\* C19: once the poller has terminated no step changes a stats counter.
C19_StatsFrozenAfterExit == [][ Terminated => stats' = stats ]_vars

\* some unit's task has ended abnormally and the poller has not collected it
PanicPending == \E u \in in_progress_queue : unitSt[u] = "Panic"

\* C20: a unit whose task ended abnormally is collected like any other: the
\* poller at its queue can take it, the step decrements parallel by 1, starts
\* no bus.send and returns to the fill loop with the channel, the chunking
\* stage and the other units untouched; an abnormal end of the finalize task
\* leads straight to termination with no send; and after such an end every
\* enqueued message is still handled and a closed receiver's poller
\* terminates, having run finalize.
C20_JoinErrorIgnored ==
    /\ []((pc = "poll_queue" /\ PanicPending) => ENABLED Collect)
    /\ [][ \A u \in Units : (Collects(u) /\ unitSt[u] = "Panic") =>
             /\ stats' = [stats EXCEPT !.parallel = fetch_sub(@, 1)]
             /\ sendOf' = None /\ pc' = "fill"
             /\ in_progress_queue' = in_progress_queue \ {u}
             /\ \A v \in Units \ {u} : unitSt'[v] = unitSt[v]
             /\ UNCHANGED << chan, closed, pollerLocals, dispatched, finVars >> ]_vars
    /\ [][ (pc = "fin_wait" /\ finSt = "Panic" /\ pc' # pc) =>
             /\ pc' = "done" /\ sendOf' = None
             /\ stats' = stats ]_vars
    /\ \A m \in Msgs :
          (PanicPending /\ WillDrain /\ Enqueued(m)) ~> HandledToCompletion(m)
    /\ (PanicPending /\ closed) ~> (pc = "done" /\ syncCalls = 1)
    /\ (finSt = "Panic") ~> (pc = "done" /\ sendOf = None)

\* the finalize task ended abnormally after the units were collected, and
\* the poller has terminated with nothing forwarded
C20_Witness ==
    /\ pc = "done"
    /\ finSt = "Panic"
    /\ sendOf = None
    /\ Len(dispatched) >= 2
    /\ stats.parallel = AtomicU64_new(0)

====
